---- MODULE Spec2Model ----
(***************************************************************************)
(* Token-aware polling and command coordinators of the mulibikes           *)
(* integration (custom_components/mulibikes): the shared MuliClient, the   *)
(* config entry's stored tokens, the live and bike-details coordinators,   *)
(* the two commands and the setup of a config entry.                       *)
(*                                                                         *)
(* Every coroutine is cut at its awaits: one step of the model is the      *)
(* synchronous code that runs between two awaits of one task.  An HTTP     *)
(* request is "sent" by the step that reaches the await (the bearer token  *)
(* is read from the client at that moment, api.py:134) and its response is *)
(* chosen by the server when the task is resumed.                          *)
(***************************************************************************)
EXTENDS Integers, Sequences, FiniteSets, TLC

\* ---------------------------------------------------------------- bounds
\* How many invocations (poll cycles, forced re-fetches, commands) may start.
MaxCycles == 4
\* The highest access token the server issues (tokens are 1, 2, ...).
MaxTokens == 3

\* -------------------------------------------------------------- constants
\* "No access token": None or the empty string, both falsy in api.py:130.
NoToken == 0

\* The refresh token of the config entry (tests/conftest.py:32).
TestRefreshToken == 1

\* What the server can answer: an HTTP status, or no answer at all
\* (aiohttp.ClientError: DNS, timeout, reset).
Statuses == {"200", "401", "403", "500", "ClientError"}

\* Payloads of fetch-live (tests/conftest.py:72-98, tests/test_init.py:91-95).
LivePayloads ==
    { [batteryLevel |-> 85, monitored |-> TRUE],
      [batteryLevel |-> 90, monitored |-> FALSE] }

\* Payloads of fetch-details (tests/conftest.py:102-106).
DetailsPayloads ==
    { [iotBatteryLevel |-> 95], [iotBatteryLevel |-> 40] }

\* coordinator.data before the first successful fetch.
None == [absent |-> TRUE]

\* The tasks that can be in flight: the scheduled cycle of each coordinator,
\* the forced re-fetch of the live coordinator, and one command.
Tasks == {"live", "forced", "details", "cmd"}
FetchTasks == {"live", "forced", "details"}
Coordinators == {"live", "details"}
Commands == {"set_monitored", "set_movement_alarm"}

VARIABLES
    entry_data,       \* config entry data: email, access_token, refresh_token
    entry_state,      \* ConfigEntryState of the entry
    setup_pc,         \* where async_setup_entry stands
    reauth_flows,     \* reauth flows in progress for the entry
    access_token,     \* MuliClient.access_token of the shared client
    data,             \* coordinator.data of each coordinator
    fetched,          \* payload of each coordinator's latest successful fetch
    pc,               \* per task: the await it is suspended at, or "idle"
    sent,             \* per task: the token carried by its in-flight request
    log,              \* per task: the finished calls of its current invocation
    result,           \* per task: how its current or last invocation ended
    command,          \* the command in the "cmd" task: name and argument
    requests,         \* async_request_refresh calls made by the last command
    pending_refresh,  \* a requested live refresh waits to run
    next_token,       \* the next access token the server will issue
    cycles,           \* invocations started so far
    flow,             \* the config flow in progress: source, step, form
    flow_log,         \* the finished calls of the flow's last submission
    other_entries     \* the data of the entries that user flows created

vars == << entry_data, entry_state, setup_pc, reauth_flows, access_token, data,
           fetched, pc, sent, log, result, command, requests, pending_refresh,
           next_token, cycles, flow, flow_log, other_entries >>

\* What the config flows read and write besides the entry.
flow_vars == << flow, flow_log, other_entries >>

\* ------------------------------------------------------------ api.py
\* Each transport operation, as the classification of one HTTP exchange:
\* "Success", "Auth" (MuliAuthenticationError) or "Conn" (MuliConnectionError).

\* Mutant: login treats only a 401 as invalid credentials.
login_403_is_http_error(status) ==
    IF status = "401" THEN "Auth"
    ELSE IF status = "200" THEN "Success"
    ELSE IF status = "200-malformed" THEN "KeyError"
    ELSE "Conn"

\* A 200 whose body lacks a token key ends in a KeyError, which is neither
\* of the client's two exceptions.
login(status) ==
    IF status \in {"401", "403"} THEN "Auth"
    ELSE IF status = "200" THEN "Success"
    ELSE IF status = "200-malformed" THEN "KeyError"
    ELSE "Conn"

\* Mutant: refresh takes every failed exchange for a rejected refresh token.
refresh_access_token_any_error_is_auth(status) ==
    IF status = "200" THEN "Success" ELSE "Auth"

refresh_access_token(status) ==
    IF status \in {"401", "403"} THEN "Auth"
    ELSE IF status = "200" THEN "Success"
    ELSE "Conn"

\* Mutant: a 401 on fetch-live is taken for an HTTP error.
get_device_data_401_is_http_error(status) ==
    IF status = "200" THEN "Success" ELSE "Conn"

get_device_data(status) ==
    IF status = "401" THEN "Auth"
    ELSE IF status = "200" THEN "Success"
    ELSE "Conn"

get_bike_details(status) ==
    IF status = "401" THEN "Auth"
    ELSE IF status = "200" THEN "Success"
    ELSE "Conn"

set_monitored(status) ==
    IF status = "401" THEN "Auth"
    ELSE IF status = "200" THEN "Success"
    ELSE "Conn"

set_movement_alarm(status) ==
    IF status = "401" THEN "Auth"
    ELSE IF status = "200" THEN "Success"
    ELSE "Conn"

\* `if not self.access_token: raise MuliAuthenticationError` of the four
\* authenticated operations: no request is sent.
\* Mutant: the check is missing and the request goes out with an empty token.
RequiresToken_unchecked(tok) == FALSE

RequiresToken(tok) == tok = NoToken

\* ------------------------------------------------------ coordinator.py
\* The transport operation a task wraps.
OperationOf(t) ==
    CASE t \in {"live", "forced"} -> "get_device_data"
      [] t = "details"            -> "get_bike_details"
      [] OTHER                    -> command.name

\* Mutant: the bike-details coordinator publishes into the live snapshot.
CoordinatorOf_shared(t) == "live"

CoordinatorOf(t) == IF t = "details" THEN "details" ELSE "live"

Transport(op, status) ==
    CASE op = "get_device_data"    -> get_device_data(status)
      [] op = "get_bike_details"   -> get_bike_details(status)
      [] op = "set_monitored"      -> set_monitored(status)
      [] op = "set_movement_alarm" -> set_movement_alarm(status)

\* What a successful exchange of the operation returns.
PayloadsOf(op) ==
    CASE op = "get_device_data"  -> LivePayloads
      [] op = "get_bike_details" -> DetailsPayloads
      [] OTHER                   -> {None}

\* One finished call of a transport method: the token it carried, the
\* server's status ("none": no exchange took place), its classification and
\* what it returned.
Call(op, tok, status, out, newtok, payload) ==
    [op |-> op, tok |-> tok, status |-> status, out |-> out,
     token |-> newtok, payload |-> payload]

\* Mutant: a failed cycle drops the snapshot of its coordinator.
Publish_clears_on_failure(t, res, payload) ==
    [data EXCEPT ![CoordinatorOf(t)] = IF res = "ok" THEN payload ELSE None]

\* DataUpdateCoordinator keeps what _async_update_data returned as .data and
\* keeps the old .data when it raised.
\* Mutant: once a snapshot exists, a returned cycle keeps it.
Publish_keeps_first(t, res, payload) ==
    IF res = "ok" /\ data[CoordinatorOf(t)] = None
    THEN [data EXCEPT ![CoordinatorOf(t)] = payload]
    ELSE data

Publish(t, res, payload) ==
    IF res = "ok" THEN [data EXCEPT ![CoordinatorOf(t)] = payload] ELSE data

\* The host's reaction to the end of a fetch invocation.  During
\* async_setup_entry the exception of a first refresh ends the setup:
\* UpdateFailed as SETUP_RETRY, ConfigEntryAuthFailed as SETUP_ERROR with a
\* reauth flow; outside setup ConfigEntryAuthFailed starts a reauth flow
\* unless one is in progress.
\* Mutant: the entry's setup returns after the live coordinator's first
\* refresh, without the bike-details one.
HostAfterFetch_loads_after_live(res) ==
    /\ IF setup_pc \in {"live", "details"}
       THEN /\ entry_state' =
                 CASE res = "ok"           -> "LOADED"
                   [] res = "UpdateFailed" -> "SETUP_RETRY"
                   [] OTHER                -> "SETUP_ERROR"
            /\ setup_pc' = "none"
       ELSE UNCHANGED << entry_state, setup_pc >>
    /\ reauth_flows' =
         IF res = "ConfigEntryAuthFailed" /\ reauth_flows = 0
         THEN 1 ELSE reauth_flows

\* Mutant: the first refresh is awaited like a later one, its failure is
\* only recorded and the setup goes on.
HostAfterFetch_swallows_failure(res) ==
    /\ IF setup_pc \in {"live", "details"}
       THEN /\ entry_state' = IF setup_pc = "live" THEN entry_state ELSE "LOADED"
            /\ setup_pc' = IF setup_pc = "live" THEN "live_done" ELSE "none"
       ELSE UNCHANGED << entry_state, setup_pc >>
    /\ reauth_flows' =
         IF res = "ConfigEntryAuthFailed" /\ reauth_flows = 0
         THEN 1 ELSE reauth_flows

HostAfterFetch(res) ==
    IF setup_pc \in {"live", "details"}
    THEN /\ entry_state' =
              CASE res = "ok" /\ setup_pc = "live" -> entry_state
                [] res = "ok"                      -> "LOADED"
                [] res = "UpdateFailed"            -> "SETUP_RETRY"
                [] OTHER                           -> "SETUP_ERROR"
         /\ setup_pc' =
              IF res = "ok" /\ setup_pc = "live" THEN "live_done" ELSE "none"
         /\ reauth_flows' =
              IF res = "ConfigEntryAuthFailed" /\ reauth_flows = 0
              THEN 1 ELSE reauth_flows
    ELSE /\ UNCHANGED << entry_state, setup_pc >>
         /\ reauth_flows' =
              IF res = "ConfigEntryAuthFailed" /\ reauth_flows = 0
              THEN 1 ELSE reauth_flows

\* Mutant: the re-fetch is requested in a `finally`, whatever the outcome.
RequestRefresh_always(res) ==
    /\ requests' = [requests EXCEPT !.live = @ + 1]
    /\ pending_refresh' = TRUE

\* Mutant: the command asks the bike-details coordinator to refresh.
RequestRefresh_details(res) ==
    IF res = "ok"
    THEN /\ requests' = [requests EXCEPT !.details = @ + 1]
         /\ UNCHANGED pending_refresh
    ELSE UNCHANGED << requests, pending_refresh >>

\* `await self.async_request_refresh()` at the end of a command: reached
\* only when no exception left the try block.
RequestRefresh(res) ==
    IF res = "ok"
    THEN /\ requests' = [requests EXCEPT !.live = @ + 1]
         /\ pending_refresh' = TRUE
    ELSE UNCHANGED << requests, pending_refresh >>

\* The invocation of task t ends: it returns (res = "ok") or raises.
\* Mutant: a successful set_monitored writes its argument into the live
\* snapshot before the re-fetch.
Ends_optimistic(t, res, payload) ==
    /\ pc' = [pc EXCEPT ![t] = "idle"]
    /\ sent' = [sent EXCEPT ![t] = NoToken]
    /\ result' = [result EXCEPT ![t] = res]
    /\ IF t \in FetchTasks
       THEN /\ data' = Publish(t, res, payload)
            /\ HostAfterFetch(res)
            /\ UNCHANGED << requests, pending_refresh >>
       ELSE /\ RequestRefresh(res)
            /\ data' = IF res = "ok" /\ command.name = "set_monitored"
                       THEN [data EXCEPT !.live.monitored = command.value]
                       ELSE data
            /\ UNCHANGED << entry_state, setup_pc, reauth_flows >>

Ends(t, res, payload) ==
    /\ pc' = [pc EXCEPT ![t] = "idle"]
    /\ sent' = [sent EXCEPT ![t] = NoToken]
    /\ result' = [result EXCEPT ![t] = res]
    /\ IF t \in FetchTasks
       THEN /\ data' = Publish(t, res, payload)
            /\ HostAfterFetch(res)
            /\ UNCHANGED << requests, pending_refresh >>
       ELSE /\ RequestRefresh(res)
            /\ UNCHANGED << data, entry_state, setup_pc, reauth_flows >>

\* The payload of the latest successful fetch of t's coordinator.
Fetched(t, out, payload) ==
    IF t \in FetchTasks /\ out = "Success"
    THEN [fetched EXCEPT ![CoordinatorOf(t)] = payload]
    ELSE fetched

\* `except MuliAuthenticationError:` of the first attempt: read the refresh
\* token of the entry and await refresh_access_token.
AttemptRefresh(t) ==
    /\ pc' = [pc EXCEPT ![t] = "refresh"]
    /\ sent' = [sent EXCEPT ![t] = entry_data.refresh_token]

\* The first `await self.client.<operation>()` of an invocation, with tok
\* the client's access token: without a token the operation raises at once
\* and the refresh is awaited instead.
\* Mutant: every invocation refreshes the token before its first attempt.
Invoke_refreshes_first(t, op, tok) ==
    /\ log' = [log EXCEPT ![t] = << >>]
    /\ AttemptRefresh(t)

Invoke(t, op, tok) ==
    IF RequiresToken(tok)
    THEN /\ log' = [log EXCEPT ![t] =
                      << Call(op, NoToken, "none", "Auth", NoToken, None) >>]
         /\ AttemptRefresh(t)
    ELSE /\ log' = [log EXCEPT ![t] = << >>]
         /\ pc' = [pc EXCEPT ![t] = "first"]
         /\ sent' = [sent EXCEPT ![t] = tok]

\* How an attempt of the operation that did not succeed leaves the
\* invocation: the outer handlers for the first attempt (line 51, 86), the
\* inner ones for the retry (lines 76, 82).
\* Mutant: every failure after the first attempt is reported as transient.
ErrorOf_always_transient(out) == "UpdateFailed"

\* Mutant: the inner handler for MuliAuthenticationError is missing, so the
\* client's exception leaves the coordinator as it is.
ErrorOf_unhandled(out) ==
    IF out = "Auth" THEN "MuliAuthenticationError" ELSE "UpdateFailed"

\* Mutant: every failure after the first attempt asks for reauthentication.
ErrorOf_always_reauth(out) == "ConfigEntryAuthFailed"

ErrorOf(out) ==
    IF out = "Auth" THEN "ConfigEntryAuthFailed" ELSE "UpdateFailed"

\* `except MuliAuthenticationError:` around the first attempt (line 51): only
\* an authentication error starts the refresh.
\* Mutant: any failure of the first attempt starts the refresh.
NeedsRefresh_on_any_error(out) == out # "Success"

NeedsRefresh(out) == out = "Auth"

\* The first attempt returns.
FirstReturns(t) ==
    /\ pc[t] = "first"
    /\ \E status \in Statuses, payload \in PayloadsOf(OperationOf(t)) :
         LET op  == OperationOf(t)
             out == Transport(op, status)
             ret == IF out = "Success" THEN payload ELSE None
         IN  /\ log' = [log EXCEPT ![t] =
                          Append(@, Call(op, sent[t], status, out, NoToken, ret))]
             /\ fetched' = Fetched(t, out, ret)
             /\ CASE out = "Success" -> Ends(t, "ok", ret)
                  [] NeedsRefresh(out) ->
                       /\ AttemptRefresh(t)
                       /\ UNCHANGED << result, data, entry_state, setup_pc,
                                       reauth_flows, requests, pending_refresh >>
                  [] OTHER -> Ends(t, "UpdateFailed", None)
    /\ UNCHANGED << entry_data, access_token, command, next_token, cycles >>
    /\ UNCHANGED flow_vars

\* The `jwtToken` of a successful refresh or login response: a token the
\* server never issued before, or an empty one.
IssuedTokens == {next_token, NoToken}

\* Mutant: the entry is rewritten with the new access token alone, so the
\* refresh token is lost.
async_update_entry_drops_other_keys(new) ==
    [entry_data EXCEPT !.access_token = new, !.refresh_token = NoToken]

\* Mutant: the new access token is given to the client only, the entry keeps
\* the old one.
async_update_entry_not_persisted(new) == entry_data

\* async_update_entry after a refresh: the entry's data with the access
\* token replaced and every other key kept (`**self.config_entry.data`).
async_update_entry(new) == [entry_data EXCEPT !.access_token = new]

\* Mutant: the retry reuses the token of the first attempt.
RetryToken_stale(old, new) == old

\* The token the retry is sent with: the client's token, just replaced.
RetryToken(old, new) == new

\* Mutant: a refresh that finds the client's token already replaced by
\* another task keeps that token and drops its own.
RefreshReturns_first_wins(t) ==
    /\ pc[t] = "refresh"
    /\ \E status \in Statuses, issued \in IssuedTokens :
         LET op   == OperationOf(t)
             out  == refresh_access_token(status)
             new  == IF out = "Success" THEN issued ELSE NoToken
             kept == IF access_token # log[t][1].tok THEN access_token ELSE new
             rec  == Call("refresh_access_token", sent[t], status, out, new, None)
         IN  /\ out = "Success" => next_token <= MaxTokens
             /\ fetched' = fetched
             /\ CASE out = "Success" ->
                       /\ next_token' = next_token + 1
                       /\ access_token' = kept
                       /\ entry_data' = async_update_entry(kept)
                       /\ IF RequiresToken(kept)
                          THEN /\ log' = [log EXCEPT ![t] = Append(Append(@, rec),
                                     Call(op, NoToken, "none", "Auth", NoToken, None))]
                               /\ Ends(t, "ConfigEntryAuthFailed", None)
                          ELSE /\ log' = [log EXCEPT ![t] = Append(@, rec)]
                               /\ pc' = [pc EXCEPT ![t] = "retry"]
                               /\ sent' = [sent EXCEPT ![t] = kept]
                               /\ UNCHANGED << result, data, entry_state,
                                     setup_pc, reauth_flows, requests,
                                     pending_refresh >>
                  [] OTHER ->
                       /\ log' = [log EXCEPT ![t] = Append(@, rec)]
                       /\ Ends(t, ErrorOf(out), None)
                       /\ UNCHANGED << next_token, access_token, entry_data >>
    /\ UNCHANGED << command, cycles >>
    /\ UNCHANGED flow_vars

\* refresh_access_token returns.  On success the client and the entry get
\* the new token and the operation is awaited again.
RefreshReturns(t) ==
    /\ pc[t] = "refresh"
    /\ \E status \in Statuses, issued \in IssuedTokens :
         LET op  == OperationOf(t)
             out == refresh_access_token(status)
             new == IF out = "Success" THEN issued ELSE NoToken
             rec == Call("refresh_access_token", sent[t], status, out, new, None)
         IN  /\ out = "Success" => next_token <= MaxTokens
             /\ fetched' = fetched
             /\ CASE out = "Success" ->
                       /\ next_token' = next_token + 1
                       /\ access_token' = new
                       /\ entry_data' = async_update_entry(new)
                       /\ IF RequiresToken(RetryToken(access_token, new))
                          THEN /\ log' = [log EXCEPT ![t] = Append(Append(@, rec),
                                     Call(op, NoToken, "none", "Auth", NoToken, None))]
                               /\ Ends(t, "ConfigEntryAuthFailed", None)
                          ELSE /\ log' = [log EXCEPT ![t] = Append(@, rec)]
                               /\ pc' = [pc EXCEPT ![t] = "retry"]
                               /\ sent' = [sent EXCEPT ![t] =
                                             RetryToken(access_token, new)]
                               /\ UNCHANGED << result, data, entry_state,
                                     setup_pc, reauth_flows, requests,
                                     pending_refresh >>
                  [] OTHER ->
                       /\ log' = [log EXCEPT ![t] = Append(@, rec)]
                       /\ Ends(t, ErrorOf(out), None)
                       /\ UNCHANGED << next_token, access_token, entry_data >>
    /\ UNCHANGED << command, cycles >>
    /\ UNCHANGED flow_vars

\* Mutant: the value of the retry is lost and the cycle reports a failure.
AfterRetry_raises(t, out, ret) == Ends(t, "UpdateFailed", None)

\* Mutant: a retry answered with an authentication error refreshes again.
AfterRetry_refreshes_again(t, out, ret) ==
    CASE out = "Success" -> Ends(t, "ok", ret)
      [] out = "Auth" ->
           /\ AttemptRefresh(t)
           /\ UNCHANGED << result, data, entry_state, setup_pc, reauth_flows,
                           requests, pending_refresh >>
      [] OTHER -> Ends(t, ErrorOf(out), None)

\* Mutant: the bike-details copy of the block reports a retry that was
\* rejected as a transient failure.
AfterRetry_details_differs(t, out, ret) ==
    IF out = "Success"
    THEN Ends(t, "ok", ret)
    ELSE Ends(t, IF t = "details" THEN "UpdateFailed" ELSE ErrorOf(out), None)

\* After the retry: its value is returned, its exception is translated by
\* the inner handlers (lines 76-84); nothing is attempted again.
AfterRetry(t, out, ret) ==
    IF out = "Success"
    THEN Ends(t, "ok", ret)
    ELSE Ends(t, ErrorOf(out), None)

\* Mutant: a retry that fails puts the token of the first attempt back into
\* the client and the entry.
RetryReturns_rolls_back(t) ==
    /\ pc[t] = "retry"
    /\ \E status \in Statuses, payload \in PayloadsOf(OperationOf(t)) :
         LET op  == OperationOf(t)
             out == Transport(op, status)
             ret == IF out = "Success" THEN payload ELSE None
             old == IF out = "Success" THEN access_token ELSE log[t][1].tok
         IN  /\ log' = [log EXCEPT ![t] =
                          Append(@, Call(op, sent[t], status, out, NoToken, ret))]
             /\ fetched' = Fetched(t, out, ret)
             /\ AfterRetry(t, out, ret)
             /\ access_token' = old
             /\ entry_data' = async_update_entry(old)
    /\ UNCHANGED << command, next_token, cycles >>
    /\ UNCHANGED flow_vars

\* The retried operation returns.
RetryReturns(t) ==
    /\ pc[t] = "retry"
    /\ \E status \in Statuses, payload \in PayloadsOf(OperationOf(t)) :
         LET op  == OperationOf(t)
             out == Transport(op, status)
             ret == IF out = "Success" THEN payload ELSE None
         IN  /\ log' = [log EXCEPT ![t] =
                          Append(@, Call(op, sent[t], status, out, NoToken, ret))]
             /\ fetched' = Fetched(t, out, ret)
             /\ AfterRetry(t, out, ret)
    /\ UNCHANGED << entry_data, access_token, command, next_token, cycles >>
    /\ UNCHANGED flow_vars

\* --------------------------------------------------------- invocations
\* A new invocation of task t starts with the client's token tok.
Begin(t, op, tok) ==
    /\ cycles < MaxCycles
    /\ cycles' = cycles + 1
    /\ result' = [result EXCEPT ![t] = "running"]
    /\ Invoke(t, op, tok)
    /\ UNCHANGED flow_vars

\* async_setup_entry up to its first await: a client with the stored access
\* token, two new coordinators, the first refresh of the live coordinator.
async_setup_entry ==
    /\ entry_state \in {"NOT_LOADED", "SETUP_RETRY"}
    /\ entry_state' = "SETUP_IN_PROGRESS"
    /\ setup_pc' = "live"
    /\ access_token' = entry_data.access_token
    /\ data' = [c \in Coordinators |-> None]
    /\ fetched' = [c \in Coordinators |-> None]
    /\ Begin("live", "get_device_data", entry_data.access_token)
    /\ UNCHANGED << entry_data, reauth_flows, command, requests,
                    pending_refresh, next_token >>

\* Mutant: the two first refreshes are started together, the bike-details
\* one without waiting for the live one.
async_setup_entry_details_gathered ==
    /\ setup_pc \in {"live", "live_done"}
    /\ pc["details"] = "idle"
    /\ setup_pc' = "details"
    /\ Begin("details", "get_bike_details", access_token)
    /\ UNCHANGED << entry_data, entry_state, reauth_flows, access_token, data,
                    fetched, command, requests, pending_refresh, next_token >>

\* async_setup_entry after the live first refresh returned: the first
\* refresh of the bike-details coordinator.
async_setup_entry_details ==
    /\ setup_pc = "live_done"
    /\ setup_pc' = "details"
    /\ Begin("details", "get_bike_details", access_token)
    /\ UNCHANGED << entry_data, entry_state, reauth_flows, access_token, data,
                    fetched, command, requests, pending_refresh, next_token >>

\* A scheduled tick of a coordinator of a loaded entry (update_interval):
\* the next tick is scheduled when the cycle has ended.
async_update_data(c) ==
    /\ entry_state = "LOADED"
    /\ pc[c] = "idle"
    /\ Begin(c, OperationOf(c), access_token)
    /\ UNCHANGED << entry_data, entry_state, setup_pc, reauth_flows,
                    access_token, data, fetched, command, requests,
                    pending_refresh, next_token >>

\* The re-fetch of the live coordinator that a command requested.
async_request_refresh ==
    /\ entry_state = "LOADED"
    /\ pending_refresh
    /\ pc["forced"] = "idle"
    /\ pending_refresh' = FALSE
    /\ Begin("forced", "get_device_data", access_token)
    /\ UNCHANGED << entry_data, entry_state, setup_pc, reauth_flows,
                    access_token, data, fetched, command, requests, next_token >>

\* A command of a loaded entry's entities, up to its first await.
StartCommand(name, value) ==
    /\ entry_state = "LOADED"
    /\ pc["cmd"] = "idle"
    /\ command' = [name |-> name, value |-> value]
    /\ requests' = [c \in Coordinators |-> 0]
    /\ Begin("cmd", name, access_token)
    /\ UNCHANGED << entry_data, entry_state, setup_pc, reauth_flows,
                    access_token, data, fetched, pending_refresh, next_token >>

async_set_monitored == \E monitored \in BOOLEAN :
    StartCommand("set_monitored", monitored)

async_set_movement_alarm == \E enabled \in BOOLEAN :
    StartCommand("set_movement_alarm", enabled)

\* ------------------------------------------------- switch.py, select.py
\* The unique ids of the entities that the switch platform hands to
\* async_add_entities for the entry.
SwitchEntities == {"armed", "movement_alarm"}

\* The switch entities registered for the entry: added when the setup
\* forwards the platforms, removed when the platforms are unloaded.
RegisteredSwitches == IF entry_state = "LOADED" THEN SwitchEntities ELSE {}

\* The armed switch is turned on.
MuliSwitch_async_turn_on == StartCommand("set_monitored", TRUE)

\* Mutant: turning the armed switch off arms the bike.
MuliSwitch_async_turn_off_arms == StartCommand("set_monitored", TRUE)

\* The armed switch is turned off.
MuliSwitch_async_turn_off == StartCommand("set_monitored", FALSE)

\* The movement alarm switch is turned on, or off.
MuliMovementAlarmSwitch_async_turn_on ==
    StartCommand("set_movement_alarm", TRUE)

MuliMovementAlarmSwitch_async_turn_off ==
    StartCommand("set_movement_alarm", FALSE)

ALARM_MODE_SILENT == "silent"

ALARM_MODE_AUDIBLE == "audible"

\* The options of the alarm mode select.
AlarmModes == {ALARM_MODE_SILENT, ALARM_MODE_AUDIBLE}

\* Mutant: every option of the select enables the movement alarm.
async_select_option_always_audible(option) ==
    StartCommand("set_movement_alarm", TRUE)

\* An option of the alarm mode select is chosen.
async_select_option(option) ==
    StartCommand("set_movement_alarm", option = ALARM_MODE_AUDIBLE)

\* ------------------------------------------------------ config_flow.py
\* The accounts a form is filled in with: the one of the configured entry
\* and another one.
Emails == {"test@example.com", "different@example.com"}

\* STEP_USER_DATA_SCHEMA: an email and a password.
UserInputs == [email : Emails, password : {"password"}]

\* No flow is in progress.
NoFlow == [source |-> "none", step |-> "none", user_input |-> None,
           errors |-> "none", outcome |-> "none"]

\* The answers to a login request: those of any request, and a 200 whose
\* body is not the expected one.
LoginAnswers == Statuses \cup {"200-malformed"}

\* Mutant: every failure of validate_input is shown as invalid credentials.
ErrorsOf_always_invalid_auth(out) == "invalid_auth"

\* errors["base"] after validate_input raised: CannotConnect, InvalidAuth
\* (the translations of the client's two exceptions), or anything else.
ErrorsOf(out) ==
    CASE out = "Conn" -> "cannot_connect"
      [] out = "Auth" -> "invalid_auth"
      [] OTHER        -> "unknown"

\* async_show_form of a step: the form, with the errors of the submission.
async_show_form(source, errors) ==
    [source |-> source, step |-> "form", user_input |-> None,
     errors |-> errors, outcome |-> "none"]

\* A step called with user_input awaits validate_input, which awaits login
\* on a client of its own that holds no token.
validate_input(user_input) ==
    /\ flow.step = "form"
    /\ flow' = [flow EXCEPT !.step = "login", !.user_input = user_input,
                            !.errors = "none"]
    /\ flow_log' = << >>
    /\ UNCHANGED << entry_data, entry_state, setup_pc, reauth_flows,
                    access_token, data, fetched, pc, sent, log, result,
                    command, requests, pending_refresh, next_token, cycles,
                    other_entries >>

\* The user step: without input it shows the form of a new flow, with input
\* it validates it.
async_step_user(user_input) ==
    IF user_input = None
    THEN /\ flow.step \in {"none", "done"}
         /\ flow' = async_show_form("user", "none")
         /\ flow_log' = << >>
         /\ UNCHANGED << entry_data, entry_state, setup_pc, reauth_flows,
                         access_token, data, fetched, pc, sent, log, result,
                         command, requests, pending_refresh, next_token,
                         cycles, other_entries >>
    ELSE /\ flow.source = "user"
         /\ validate_input(user_input)

\* A reauthentication flow of the entry starts and shows its form.
async_step_reauth ==
    /\ flow.step \in {"none", "done"}
    /\ reauth_flows = 0
    /\ reauth_flows' = 1
    /\ flow' = async_show_form("reauth", "none")
    /\ flow_log' = << >>
    /\ UNCHANGED << entry_data, entry_state, setup_pc, access_token, data,
                    fetched, pc, sent, log, result, command, requests,
                    pending_refresh, next_token, cycles, other_entries >>

\* The reauth_confirm step called with the submitted form.
async_step_reauth_confirm(user_input) ==
    /\ flow.source = "reauth"
    /\ validate_input(user_input)

\* Mutant: the unique id is never set, so no account counts as configured.
ConfiguredEmails_unchecked == {}

\* The unique id of the flow is the email: the accounts already configured.
ConfiguredEmails == {entry_data.email} \cup {e.email : e \in other_entries}

\* Mutant: the entry is created from the submitted form plus the tokens.
async_create_entry_stores_input(info) ==
    /\ IF info.email \in ConfiguredEmails
       THEN /\ flow' = [flow EXCEPT !.step = "done",
                                    !.outcome = "already_configured"]
            /\ UNCHANGED other_entries
       ELSE /\ flow' = [flow EXCEPT !.step = "done",
                                    !.outcome = "create_entry"]
            /\ other_entries' = other_entries \cup
                 {[email |-> info.email,
                   password |-> flow.user_input.password,
                   access_token |-> info.access_token,
                   refresh_token |-> info.refresh_token]}
    /\ UNCHANGED << entry_data, entry_state, reauth_flows >>

\* The end of the user step: abort on a configured account, else an entry
\* with the email and the two tokens.
async_create_entry(info) ==
    /\ IF info.email \in ConfiguredEmails
       THEN /\ flow' = [flow EXCEPT !.step = "done",
                                    !.outcome = "already_configured"]
            /\ UNCHANGED other_entries
       ELSE /\ flow' = [flow EXCEPT !.step = "done",
                                    !.outcome = "create_entry"]
            /\ other_entries' = other_entries \cup {info}
    /\ UNCHANGED << entry_data, entry_state, reauth_flows >>

\* Mutant: reauthentication stores the new access token only.
async_update_reload_and_abort_access_only(info) ==
    /\ IF info.email # entry_data.email
       THEN /\ flow' = [flow EXCEPT !.step = "done",
                                    !.outcome = "wrong_account"]
            /\ UNCHANGED << entry_data, entry_state >>
       ELSE /\ flow' = [flow EXCEPT !.step = "done",
                                    !.outcome = "reauth_successful"]
            /\ entry_data' = [entry_data EXCEPT
                                !.access_token = info.access_token]
            /\ entry_state' = "NOT_LOADED"
    /\ reauth_flows' = 0
    /\ UNCHANGED other_entries

\* Mutant: the account of the login is not compared with the entry's.
async_update_reload_and_abort_any_account(info) ==
    /\ flow' = [flow EXCEPT !.step = "done", !.outcome = "reauth_successful"]
    /\ entry_data' = [entry_data EXCEPT
                        !.access_token = info.access_token,
                        !.refresh_token = info.refresh_token]
    /\ entry_state' = "NOT_LOADED"
    /\ reauth_flows' = 0
    /\ UNCHANGED other_entries

\* The end of the reauth_confirm step: abort on another account, else the
\* entry gets the two new tokens and is reloaded.
async_update_reload_and_abort(info) ==
    /\ IF info.email # entry_data.email
       THEN /\ flow' = [flow EXCEPT !.step = "done",
                                    !.outcome = "wrong_account"]
            /\ UNCHANGED << entry_data, entry_state >>
       ELSE /\ flow' = [flow EXCEPT !.step = "done",
                                    !.outcome = "reauth_successful"]
            /\ entry_data' = [entry_data EXCEPT
                                !.access_token = info.access_token,
                                !.refresh_token = info.refresh_token]
            /\ entry_state' = "NOT_LOADED"
    /\ reauth_flows' = 0
    /\ UNCHANGED other_entries

\* login returns to validate_input and the step goes on.
LoginReturns ==
    /\ flow.step = "login"
    /\ \E answer \in LoginAnswers, issued \in IssuedTokens :
         LET out  == login(answer)
             info == [email |-> flow.user_input.email,
                      access_token |-> issued, refresh_token |-> next_token]
             new  == IF out = "Success" THEN issued ELSE NoToken
         IN  /\ out = "Success" => next_token <= MaxTokens
             /\ flow_log' = Append(flow_log,
                                   Call("login", NoToken, answer, out, new, None))
             /\ IF out = "Success"
                THEN /\ next_token' = next_token + 1
                     /\ IF flow.source = "user"
                        THEN async_create_entry(info)
                        ELSE async_update_reload_and_abort(info)
                ELSE /\ flow' = async_show_form(flow.source, ErrorsOf(out))
                     /\ UNCHANGED << entry_data, entry_state, reauth_flows,
                                     next_token, other_entries >>
    /\ UNCHANGED << setup_pc, access_token, data, fetched, pc, sent, log,
                    result, command, requests, pending_refresh, cycles >>

\* ------------------------------------------------------- specification
Init ==
    /\ entry_data \in { [email |-> "test@example.com", access_token |-> a,
                         refresh_token |-> TestRefreshToken] :
                        a \in {NoToken, 1} }
    /\ entry_state = "NOT_LOADED"
    /\ setup_pc = "none"
    /\ reauth_flows = 0
    /\ access_token = NoToken
    /\ data = [c \in Coordinators |-> None]
    /\ fetched = [c \in Coordinators |-> None]
    /\ pc = [t \in Tasks |-> "idle"]
    /\ sent = [t \in Tasks |-> NoToken]
    /\ log = [t \in Tasks |-> << >>]
    /\ result = [t \in Tasks |-> "none"]
    /\ command = [name |-> "set_monitored", value |-> FALSE]
    /\ requests = [c \in Coordinators |-> 0]
    /\ pending_refresh = FALSE
    /\ next_token = 2
    /\ cycles = 0
    /\ flow = NoFlow
    /\ flow_log = << >>
    /\ other_entries = {}

Next ==
    \/ async_setup_entry
    \/ async_setup_entry_details
    \/ \E c \in Coordinators : async_update_data(c)
    \/ async_request_refresh
    \/ async_set_monitored
    \/ async_set_movement_alarm
    \/ \E t \in Tasks : FirstReturns(t)
    \/ \E t \in Tasks : RefreshReturns(t)
    \/ \E t \in Tasks : RetryReturns(t)

Spec == Init /\ [][Next]_vars

\* async_unload_entry: the platforms are unloaded and the host marks the
\* entry NOT_LOADED; a later setup builds a new client and new coordinators.
async_unload_entry ==
    /\ entry_state = "LOADED"
    /\ entry_state' = "NOT_LOADED"
    /\ UNCHANGED << entry_data, setup_pc, reauth_flows, access_token, data,
                    fetched, pc, sent, log, result, command, requests,
                    pending_refresh, next_token, cycles >>
    /\ UNCHANGED flow_vars

\* The life cycle of the entry: set up, unloaded, set up again, without the
\* polls and commands of the time in between.
SetupNext ==
    \/ async_setup_entry
    \/ async_setup_entry_details
    \/ \E c \in Coordinators : FirstReturns(c)
    \/ \E c \in Coordinators : RefreshReturns(c)
    \/ \E c \in Coordinators : RetryReturns(c)
    \/ async_unload_entry

SetupSpec == Init /\ [][SetupNext]_vars

\* The config flows of the integration, on an entry that is not set up.
FlowNext ==
    \/ \E user_input \in UserInputs \cup {None} : async_step_user(user_input)
    \/ async_step_reauth
    \/ \E user_input \in UserInputs : async_step_reauth_confirm(user_input)
    \/ LoginReturns

FlowSpec == Init /\ [][FlowNext]_vars

\* The polling loop of a loaded entry, without a limit on the number of
\* cycles.  It starts where the setup of an entry with a valid token ended.
PollInit ==
    /\ entry_data = [email |-> "test@example.com", access_token |-> 1,
                     refresh_token |-> TestRefreshToken]
    /\ entry_state = "LOADED"
    /\ setup_pc = "none"
    /\ reauth_flows = 0
    /\ access_token = 1
    /\ \E live \in LivePayloads, details \in DetailsPayloads :
         /\ data = [c \in Coordinators |->
                      IF c = "live" THEN live ELSE details]
         /\ log = [t \in Tasks |->
                     CASE t = "live" ->
                            << Call("get_device_data", 1, "200", "Success",
                                    NoToken, live) >>
                       [] t = "details" ->
                            << Call("get_bike_details", 1, "200", "Success",
                                    NoToken, details) >>
                       [] OTHER -> << >>]
    /\ fetched = data
    /\ pc = [t \in Tasks |-> "idle"]
    /\ sent = [t \in Tasks |-> NoToken]
    /\ result = [t \in Tasks |-> IF t \in Coordinators THEN "ok" ELSE "none"]
    /\ command = [name |-> "set_monitored", value |-> FALSE]
    /\ requests = [c \in Coordinators |-> 0]
    /\ pending_refresh = FALSE
    /\ next_token = 2
    /\ cycles = 2
    /\ flow = NoFlow
    /\ flow_log = << >>
    /\ other_entries = {}

\* Mutant: a coordinator whose cycle failed is not ticked again.
Tick_gives_up_after_failure(c) ==
    /\ entry_state = "LOADED"
    /\ pc[c] = "idle"
    /\ result[c] # "UpdateFailed"
    /\ result' = [result EXCEPT ![c] = "running"]
    /\ Invoke(c, OperationOf(c), access_token)
    /\ UNCHANGED << entry_data, entry_state, setup_pc, reauth_flows,
                    access_token, data, fetched, command, requests,
                    pending_refresh, next_token, cycles >>
    /\ UNCHANGED flow_vars

\* A scheduled tick of a coordinator: update_interval makes the host call
\* _async_update_data again after every cycle, whatever its result.
Tick(c) ==
    /\ entry_state = "LOADED"
    /\ pc[c] = "idle"
    /\ result' = [result EXCEPT ![c] = "running"]
    /\ Invoke(c, OperationOf(c), access_token)
    /\ UNCHANGED << entry_data, entry_state, setup_pc, reauth_flows,
                    access_token, data, fetched, command, requests,
                    pending_refresh, next_token, cycles >>
    /\ UNCHANGED flow_vars

\* A request in flight of task t gets its answer.
Returns(t) == FirstReturns(t) \/ RefreshReturns(t) \/ RetryReturns(t)

PollNext ==
    \/ \E c \in Coordinators : Tick(c)
    \/ \E c \in Coordinators : FirstReturns(c)
    \/ \E c \in Coordinators : RefreshReturns(c)
    \/ \E c \in Coordinators : RetryReturns(c)

\* Every due tick fires and every request gets an answer or an error.
FairPollSpec ==
    /\ PollInit
    /\ [][PollNext]_vars
    /\ \A c \in Coordinators : WF_vars(Tick(c)) /\ WF_vars(Returns(c))

\* The controls of a loaded entry: the switches and the select are operated
\* and the requests of the commands get their answers.
ControlNext ==
    \/ MuliSwitch_async_turn_on
    \/ MuliSwitch_async_turn_off
    \/ MuliMovementAlarmSwitch_async_turn_on
    \/ MuliMovementAlarmSwitch_async_turn_off
    \/ \E option \in AlarmModes : async_select_option(option)
    \/ FirstReturns("cmd")
    \/ RefreshReturns("cmd")
    \/ RetryReturns("cmd")

ControlSpec == PollInit /\ [][ControlNext]_vars

TypeOK ==
    /\ access_token \in 0..(MaxTokens + 1)
    /\ entry_state \in {"NOT_LOADED", "SETUP_IN_PROGRESS", "LOADED",
                        "SETUP_RETRY", "SETUP_ERROR"}
    /\ \A t \in Tasks : pc[t] \in {"idle", "first", "refresh", "retry"}
    /\ cycles \in 0..MaxCycles

\* ----------------------------------------------------------- properties
Last(s) == s[Len(s)]

IsRefresh(call) == call.op = "refresh_access_token"

\* Calls of refresh_access_token made so far by the current invocation of t,
\* the one in flight included.
RefreshCalls(t) ==
    Cardinality({ i \in 1..Len(log[t]) : IsRefresh(log[t][i]) })
      + (IF pc[t] = "refresh" THEN 1 ELSE 0)

\* Calls of the wrapped operation made so far by the current invocation of t.
OperationCalls(t) ==
    Cardinality({ i \in 1..Len(log[t]) : ~IsRefresh(log[t][i]) })
      + (IF pc[t] \in {"first", "retry"} THEN 1 ELSE 0)

Finished(t) == result[t] \in {"ok", "UpdateFailed", "ConfigEntryAuthFailed"}

\* C1 as stated: a fetch whose first response has status 401 or 403 makes
\* exactly one refresh call and at most two calls of the fetch.
C1_AuthStatusRefreshesOnce ==
    \A t \in FetchTasks :
        (Len(log[t]) >= 1 /\ log[t][1].status \in {"401", "403"})
            => RefreshCalls(t) = 1 /\ OperationCalls(t) <= 2

\* C1 (amended): a fetch whose first response has status 401 makes exactly
\* one refresh call and at most two calls of the fetch; a fetch whose first
\* response has status 403 is a connection failure: no refresh call, no
\* retry, and the cycle ends with UpdateFailed.
C1_Status401RefreshesOnce ==
    \A t \in FetchTasks :
        Len(log[t]) >= 1 =>
            /\ log[t][1].status = "401"
                 => RefreshCalls(t) = 1 /\ OperationCalls(t) <= 2
            /\ log[t][1].status = "403"
                 => /\ RefreshCalls(t) = 0
                    /\ OperationCalls(t) = 1
                    /\ result[t] = "UpdateFailed"

C1_Witness ==
    \E t, u \in FetchTasks :
        /\ Finished(t)
        /\ Len(log[t]) = 3
        /\ log[t][1].status = "401"
        /\ RefreshCalls(t) = 1
        /\ OperationCalls(t) = 2
        /\ Finished(u)
        /\ Len(log[u]) = 1
        /\ log[u][1].status = "403"

\* C2 as stated: when the retry of an invocation whose refresh succeeded
\* returns, the client and the entry hold the token that refresh returned,
\* and the retry was sent with that token and not with the rejected one.
C2_TokenAtEndOfCycle ==
    [][ \A t \in Tasks :
          (pc[t] = "retry" /\ pc'[t] = "idle") =>
              /\ access_token' = log'[t][2].token
              /\ entry_data'.access_token = log'[t][2].token
              /\ log'[t][3].tok = log'[t][2].token
              /\ log'[t][3].tok # log'[t][1].tok ]_vars

\* C3: a fetch answered with an authentication error whose refresh call is
\* rejected with an authentication error ends with ConfigEntryAuthFailed
\* after one fetch call and one refresh call, with the snapshots unchanged;
\* in async_setup_entry the entry goes to SETUP_ERROR with one reauth flow.
C3_RefreshRejected ==
    [][ \A t \in FetchTasks :
          ( /\ pc[t] = "refresh"
            /\ pc'[t] = "idle"
            /\ IsRefresh(Last(log'[t]))
            /\ Last(log'[t]).out = "Auth" ) =>
              /\ result'[t] = "ConfigEntryAuthFailed"
              /\ RefreshCalls(t)' = 1
              /\ OperationCalls(t)' = 1
              /\ data' = data
              /\ setup_pc \in {"live", "details"} =>
                    entry_state' = "SETUP_ERROR" /\ reauth_flows' = 1 ]_vars

C3_Witness ==
    \E t \in FetchTasks :
        /\ result[t] = "ConfigEntryAuthFailed"
        /\ Len(log[t]) = 2
        /\ log[t][1].status = "401"
        /\ log[t][2].status = "401"
        /\ entry_state = "LOADED"
        /\ data[CoordinatorOf(t)] # None

\* C4: the step in which any call (the operation, its retry or the refresh)
\* returns a connection failure changes neither the client's access token
\* nor the entry's stored tokens, and issues no refresh call.
C4_ConnectionFailureFrame ==
    [][ \A t \in Tasks :
          (Len(log'[t]) > Len(log[t]) /\ Last(log'[t]).out = "Conn") =>
              /\ access_token' = access_token
              /\ entry_data' = entry_data
              /\ \A u \in Tasks : RefreshCalls(u)' = RefreshCalls(u) ]_vars

C4_Witness ==
    \E t, u \in Tasks :
        /\ result[t] = "UpdateFailed"
        /\ Len(log[t]) = 1
        /\ log[t][1].out = "Conn"
        /\ result[u] = "UpdateFailed"
        /\ IsRefresh(Last(log[u]))
        /\ Last(log[u]).out = "Conn"

\* C5: each coordinator's snapshot is absent or is, in whole, the payload of
\* its latest successful fetch; a cycle whose first fetch is a connection
\* failure (an HTTP 500, say) ends with UpdateFailed and makes no refresh
\* call.
C5_SnapshotIsLastFetched ==
    /\ \A c \in Coordinators : data[c] = fetched[c]
    /\ \A t \in FetchTasks :
          (Len(log[t]) >= 1 /\ log[t][1].out = "Conn") =>
              /\ result[t] = "UpdateFailed"
              /\ RefreshCalls(t) = 0
              /\ OperationCalls(t) = 1

C5_Witness ==
    \E t \in FetchTasks :
        /\ result[t] = "UpdateFailed"
        /\ Len(log[t]) = 1
        /\ log[t][1].status = "500"
        /\ data[CoordinatorOf(t)] # None
        /\ data[CoordinatorOf(t)] = fetched[CoordinatorOf(t)]

\* C6: when the first fetch of a cycle is an authentication failure, the
\* refresh succeeds and the retried fetch succeeds with payload P, the cycle
\* returns, P is the coordinator's snapshot, and the cycle made one refresh
\* call and two fetch calls.
C6_RetriedPayloadPublished ==
    [][ \A t \in FetchTasks :
          ( /\ pc[t] = "retry"
            /\ pc'[t] = "idle"
            /\ log'[t][1].out = "Auth"
            /\ log'[t][2].out = "Success"
            /\ log'[t][3].out = "Success" ) =>
              /\ result'[t] = "ok"
              /\ data'[CoordinatorOf(t)] = log'[t][3].payload
              /\ log'[t][3].payload # None
              /\ RefreshCalls(t)' = 1
              /\ OperationCalls(t)' = 2 ]_vars

C6_Witness ==
    /\ result["live"] = "ok"
    /\ Len(log["live"]) = 3
    /\ log["live"][1].status = "401"
    /\ log["live"][3].out = "Success"
    /\ data["live"] = log["live"][3].payload
    /\ data["live"].batteryLevel = 90

\* C7: a command that succeeded, at once or after a refresh and a retry, has
\* requested exactly one refresh of the live coordinator and none of the
\* bike-details coordinator.
C7_CommandRequestsLiveRefresh ==
    result["cmd"] = "ok" => requests = [live |-> 1, details |-> 0]

C7_Witness ==
    /\ result["cmd"] = "ok"
    /\ Len(log["cmd"]) = 3
    /\ command.name = "set_movement_alarm"
    /\ requests["live"] = 1

\* C8 as stated: two tasks that found the same access token rejected never
\* both have a refresh call in flight: one refresh call serves both.
C8_RefreshSerialized ==
    ~ \E t, u \in Tasks :
          /\ t # u
          /\ pc[t] = "refresh"
          /\ pc[u] = "refresh"
          /\ log[t][1].out = "Auth"
          /\ log[u][1].out = "Auth"
          /\ log[t][1].tok = log[u][1].tok

\* C10: an invocation whose retry is answered with an authentication error
\* has ended in failure, after one refresh call and two calls of the
\* operation.
C10_SecondAuthFailureIsFinal ==
    \A t \in Tasks :
        (Len(log[t]) >= 3 /\ log[t][3].out = "Auth") =>
            /\ pc[t] = "idle"
            /\ result[t] = "ConfigEntryAuthFailed"
            /\ Len(log[t]) = 3
            /\ RefreshCalls(t) = 1
            /\ OperationCalls(t) = 2

C10_Witness ==
    \E t \in Tasks :
        /\ Len(log[t]) = 3
        /\ log[t][2].out = "Success"
        /\ log[t][3].status = "401"
        /\ result[t] = "ConfigEntryAuthFailed"

\* C11: when the refresh call itself returns a connection failure, that step
\* ends the invocation with UpdateFailed (never ConfigEntryAuthFailed), the
\* client's token and the entry's credentials stay as they were, and the
\* original operation is not awaited again: its only call is the first one.
C11_RefreshConnectionFailure ==
    [][\A t \in Tasks :
         ( /\ pc[t] = "refresh"
           /\ Len(log'[t]) > Len(log[t])
           /\ IsRefresh(Last(log'[t]))
           /\ Last(log'[t]).out = "Conn" )
         => /\ pc'[t] = "idle"
            /\ result'[t] = "UpdateFailed"
            /\ access_token' = access_token
            /\ entry_data' = entry_data
            /\ Len(log'[t]) = 2
            /\ ~IsRefresh(log'[t][1])
            /\ \A u \in Tasks : pc'[u] = "retry" => pc[u] = "retry"]_vars

C11_Witness ==
    \E t \in Tasks :
        /\ Finished(t)
        /\ Len(log[t]) = 2
        /\ IsRefresh(log[t][2])
        /\ log[t][2].status \in {"500", "ClientError"}
        /\ log[t][2].out = "Conn"
        /\ result[t] = "UpdateFailed"
        /\ entry_data.refresh_token = log[t][2].tok

\* C12: an authenticated operation invoked while the client holds no access
\* token yields an authentication failure without any HTTP exchange (the call
\* carries no status), and the caller then runs the refresh path exactly as
\* after a 401: one refresh call with the entry's refresh token follows, and
\* a retry of the operation only after a successful refresh.
C12_NoTokenIsAuthFailure ==
    \A t \in Tasks : \A i \in 1..Len(log[t]) :
        (~IsRefresh(log[t][i]) /\ log[t][i].tok = NoToken)
        => /\ log[t][i].status = "none"
           /\ log[t][i].out = "Auth"
           /\ i = 1 => /\ RefreshCalls(t) = 1
                       /\ OperationCalls(t) <= 2
                       /\ Len(log[t]) >= 2 => IsRefresh(log[t][2])
                       /\ Len(log[t]) >= 3 => log[t][2].out = "Success"
           /\ i = 3 => /\ result[t] = "ConfigEntryAuthFailed"
                       /\ RefreshCalls(t) = 1

\* A command issued while the client's token is empty went through the
\* refresh path and succeeded on the retry.
C12_Witness ==
    /\ Finished("cmd")
    /\ Len(log["cmd"]) = 3
    /\ log["cmd"][1].tok = NoToken
    /\ log["cmd"][1].status = "none"
    /\ log["cmd"][2].out = "Success"
    /\ log["cmd"][3].out = "Success"
    /\ result["cmd"] = "ok"

\* The answers that are neither a 2xx nor a 401/403: another HTTP error
\* status, or no HTTP answer at all (aiohttp ClientError).
FailedExchanges == Statuses \ {"200", "401", "403"}

\* C13: every transport operation classifies a failed exchange (a status
\* other than 2xx, 401 and 403, or a transport-level error) as a connection
\* failure, never as an authentication failure; in a coordinator such a call
\* is the last of its invocation, which ends with UpdateFailed, so it never
\* starts a token refresh.
C13_FailedExchangeIsConnectionFailure ==
    /\ \A status \in FailedExchanges :
         /\ login(status) = "Conn"
         /\ refresh_access_token(status) = "Conn"
         /\ \A op \in {"get_device_data", "get_bike_details"} \cup Commands :
              Transport(op, status) = "Conn"
    /\ \A t \in Tasks : \A i \in 1..Len(log[t]) :
         log[t][i].status \in FailedExchanges
         => /\ log[t][i].out = "Conn"
            /\ i = Len(log[t])
            /\ pc[t] = "idle"
            /\ result[t] = "UpdateFailed"

\* A fetch answered 500 and a fetch that got no answer, both ended without a
\* refresh call.
C13_Witness ==
    /\ Len(log["live"]) = 1
    /\ log["live"][1].status = "500"
    /\ RefreshCalls("live") = 0
    /\ result["live"] = "UpdateFailed"
    /\ Len(log["details"]) = 1
    /\ log["details"][1].status = "ClientError"
    /\ RefreshCalls("details") = 0
    /\ result["details"] = "UpdateFailed"

\* C14: no poll cycle and no command ends by exposing the client's raw
\* MuliAuthenticationError: an invocation in which some call returned an
\* authentication failure ends with exactly one of success,
\* ConfigEntryAuthFailed or UpdateFailed, and the three results are told
\* apart by the call that ended the invocation.
C14_AuthFailureIsResolved ==
    \A t \in Tasks :
        /\ result[t] # "MuliAuthenticationError"
        /\ (pc[t] = "idle" /\ \E i \in 1..Len(log[t]) : log[t][i].out = "Auth")
           => /\ result[t] \in {"ok", "ConfigEntryAuthFailed", "UpdateFailed"}
              /\ result[t] = "ok" <=> Last(log[t]).out = "Success"
              /\ result[t] = "ConfigEntryAuthFailed" <=> Last(log[t]).out = "Auth"
              /\ result[t] = "UpdateFailed" <=> Last(log[t]).out = "Conn"

\* The three resolutions of an authentication failure, in three tasks.
C14_Witness ==
    /\ Finished("live") /\ Finished("details") /\ Finished("cmd")
    /\ log["live"] # << >> /\ log["live"][1].out = "Auth"
    /\ result["live"] = "ok"
    /\ log["details"] # << >> /\ log["details"][1].out = "Auth"
    /\ result["details"] = "ConfigEntryAuthFailed"
    /\ log["cmd"] # << >> /\ log["cmd"][1].out = "Auth"
    /\ result["cmd"] = "UpdateFailed"

\* C15: a login that the server answers with 401 or 403 is an authentication
\* failure handed directly to the caller after exactly one HTTP exchange:
\* the submission's only call is that login (no refresh call, no second
\* login), the step shows its form again with invalid_auth, and no entry is
\* created or changed.
C15_LoginRejectedDirectly ==
    [][( /\ flow.step = "login"
         /\ flow'.step # "login"
         /\ Last(flow_log').status \in {"401", "403"} )
       => /\ Len(flow_log') = 1
          /\ flow_log'[1].op = "login"
          /\ flow_log'[1].out = "Auth"
          /\ flow'.step = "form"
          /\ flow'.errors = "invalid_auth"
          /\ flow'.outcome = "none"
          /\ entry_data' = entry_data
          /\ other_entries' = other_entries
          /\ next_token' = next_token]_vars

\* A reauthentication form shown again after a login answered 403.
C15_Witness ==
    /\ flow.source = "reauth"
    /\ flow.step = "form"
    /\ flow.errors = "invalid_auth"
    /\ Len(flow_log) = 1
    /\ flow_log[1].op = "login"
    /\ flow_log[1].status = "403"

\* C16: while no snapshot exists, a failing first fetch of a coordinator is
\* a failure of the setup: the step that ends it leaves the entry in
\* SETUP_RETRY after a connection failure (SETUP_ERROR after a rejected
\* refresh token), the setup does not go on, and the entry is never loaded
\* with an empty snapshot.
C16_FirstFetchFailureFailsSetup ==
    [][/\ \A c \in Coordinators :
            ( /\ setup_pc = c
              /\ pc[c] # "idle"
              /\ pc'[c] = "idle"
              /\ result'[c] # "ok" )
            => /\ data'[c] = None
               /\ setup_pc' = "none"
               /\ entry_state' = IF result'[c] = "UpdateFailed"
                                 THEN "SETUP_RETRY" ELSE "SETUP_ERROR"
       /\ entry_state' = "LOADED" => \A c \in Coordinators : data'[c] # None
      ]_vars

\* The first live fetch got no answer and the entry waits for a new setup.
C16_Witness ==
    /\ entry_state = "SETUP_RETRY"
    /\ result["live"] = "UpdateFailed"
    /\ Len(log["live"]) = 1
    /\ log["live"][1].out = "Conn"
    /\ data["live"] = None
    /\ result["details"] = "none"

\* C18: a connection failure in a poll cycle does not stop the polling loop.
\* The failed cycle leaves the entry loaded and the old snapshot in place,
\* the coordinator goes on to its next fetch (whenever a cycle has ended with
\* UpdateFailed, a later fetch of the same coordinator is in flight), and a
\* cycle whose last call is answered successfully publishes that answer.
C18_PollingSurvivesConnectionFailure ==
    /\ \A c \in Coordinators :
         (pc[c] = "idle" /\ result[c] = "UpdateFailed") ~> (pc[c] # "idle")
    /\ [][\A c \in Coordinators :
            /\ (pc[c] # "idle" /\ pc'[c] = "idle" /\ result'[c] = "UpdateFailed")
               => (entry_state' = "LOADED" /\ data' = data)
            /\ ( /\ pc[c] # "idle"
                 /\ pc'[c] = "idle"
                 /\ Last(log'[c]).out = "Success" )
               => /\ result'[c] = "ok"
                  /\ data'[c] = Last(log'[c]).payload
                  /\ data'[c] # None]_vars

\* A live poll cycle of the loaded entry got no answer and ended; the
\* snapshot of the setup is still there.
C18_Witness ==
    /\ entry_state = "LOADED"
    /\ pc["live"] = "idle"
    /\ result["live"] = "UpdateFailed"
    /\ Len(log["live"]) = 1
    /\ log["live"][1].status = "ClientError"
    /\ data["live"] # None

\* C19: a command never writes the live snapshot itself.  No step of the
\* command task changes a snapshot, from its start to its end, and in a
\* loaded entry a snapshot changes only in the step in which a fetch of its
\* coordinator ends successfully, to the payload of that fetch.
C19_CommandLeavesSnapshot ==
    [][/\ (pc'["cmd"] # pc["cmd"] \/ log'["cmd"] # log["cmd"]
            \/ result'["cmd"] # result["cmd"])
          => data' = data
       /\ (entry_state = "LOADED" /\ data' # data)
          => \E t \in FetchTasks :
               /\ pc[t] # "idle"
               /\ pc'[t] = "idle"
               /\ Last(log'[t]).out = "Success"
               /\ data' = [data EXCEPT
                             ![CoordinatorOf(t)] = Last(log'[t]).payload]
      ]_vars

\* set_monitored succeeded with an argument that differs from the snapshot,
\* which still shows the old value while the re-fetch is pending.
C19_Witness ==
    /\ result["cmd"] = "ok"
    /\ command.name = "set_monitored"
    /\ data["live"].monitored # command.value
    /\ pending_refresh
    /\ pc["forced"] = "idle"

\* C20: a command whose first transport call returns an authentication
\* failure follows the refresh protocol of a fetch: per invocation at most
\* one refresh call, made right after the first call, and at most two calls
\* of the command; a rejected refresh token ends the invocation with
\* ConfigEntryAuthFailed and a connection failure of the refresh or of the
\* retry ends it with UpdateFailed, and a failed command requests no
\* re-fetch.
C20_CommandRefreshProtocol ==
    LET calls == log["cmd"]
    IN  (calls # << >> /\ calls[1].out = "Auth")
        => /\ RefreshCalls("cmd") = 1
           /\ OperationCalls("cmd") <= 2
           /\ Len(calls) <= 3
           /\ Len(calls) >= 2 => IsRefresh(calls[2])
           /\ Len(calls) = 3 => calls[3].op = command.name
           /\ (Len(calls) >= 2 /\ calls[2].out # "Success")
              => /\ Len(calls) = 2
                 /\ pc["cmd"] = "idle"
                 /\ result["cmd"] = IF calls[2].out = "Auth"
                                    THEN "ConfigEntryAuthFailed"
                                    ELSE "UpdateFailed"
           /\ (Len(calls) = 3 /\ calls[3].out # "Success")
              => /\ pc["cmd"] = "idle"
                 /\ result["cmd"] = IF calls[3].out = "Auth"
                                    THEN "ConfigEntryAuthFailed"
                                    ELSE "UpdateFailed"
           /\ (pc["cmd"] = "idle" /\ result["cmd"] # "ok")
              => requests["live"] = 0

\* set_monitored answered 401, then the refresh token was rejected.
C20_Witness ==
    /\ command.name = "set_monitored"
    /\ Len(log["cmd"]) = 2
    /\ log["cmd"][1].status = "401"
    /\ log["cmd"][2].out = "Auth"
    /\ result["cmd"] = "ConfigEntryAuthFailed"
    /\ requests["live"] = 0

\* C21: within the core the stored access token changes only in the step in
\* which a refresh call of some task returns successfully, and to the token
\* of that answer; the stored refresh token and email never change; the
\* answer of a transport call of an operation (first attempt or retry)
\* changes neither the entry nor the client's token.
C21_StoreWrittenByRefreshOnly ==
    [][/\ entry_data'.email = entry_data.email
       /\ entry_data'.refresh_token = entry_data.refresh_token
       /\ DOMAIN entry_data' = DOMAIN entry_data
       /\ entry_data'.access_token # entry_data.access_token
          => \E t \in Tasks :
               /\ pc[t] = "refresh"
               /\ Len(log'[t]) > Len(log[t])
               /\ IsRefresh(log'[t][Len(log[t]) + 1])
               /\ log'[t][Len(log[t]) + 1].out = "Success"
               /\ log'[t][Len(log[t]) + 1].token = entry_data'.access_token
       /\ \A t \in Tasks :
            (pc[t] \in {"first", "retry"} /\ pc'[t] # pc[t])
            => (entry_data' = entry_data /\ access_token' = access_token)
      ]_vars

\* A refresh succeeded: the entry holds the refreshed access token next to
\* the refresh token and the email it was set up with.
C21_Witness ==
    \E t \in Tasks :
        /\ Len(log[t]) >= 2
        /\ IsRefresh(log[t][2])
        /\ log[t][2].out = "Success"
        /\ log[t][2].token # NoToken
        /\ entry_data.access_token = log[t][2].token
        /\ entry_data.refresh_token = TestRefreshToken
        /\ entry_data.email = "test@example.com"

\* C22: a refresh is called only after the first attempt of the wrapped
\* operation returned an authentication failure.  An invocation whose first
\* attempt succeeds makes no refresh call and exactly one call of the
\* operation, ends there, and the step in which that call returns leaves the
\* entry and the client's token unchanged.
C22_RefreshOnlyAfterAuthFailure ==
    [][\A t \in Tasks :
         /\ RefreshCalls(t)' >= 1
            => /\ log'[t] # << >>
               /\ ~IsRefresh(log'[t][1])
               /\ log'[t][1].out = "Auth"
         /\ (log'[t] # << >> /\ log'[t][1].out = "Success")
            => /\ Len(log'[t]) = 1
               /\ RefreshCalls(t)' = 0
               /\ OperationCalls(t)' = 1
               /\ pc'[t] = "idle"
               /\ result'[t] = "ok"
         /\ (pc[t] = "first" /\ pc'[t] = "idle" /\ result'[t] = "ok")
            => (entry_data' = entry_data /\ access_token' = access_token)
      ]_vars

\* A command and a poll that both succeeded at once.
C22_Witness ==
    /\ result["cmd"] = "ok"
    /\ Len(log["cmd"]) = 1
    /\ log["cmd"][1].status = "200"
    /\ RefreshCalls("cmd") = 0
    /\ result["details"] = "ok"
    /\ Len(log["details"]) = 1
    /\ RefreshCalls("details") = 0

\* C23: the token update is one atomic replace for every other task.  While
\* the entry is being set up or is loaded (the only states in which a
\* coordinator or a command runs), the token of the shared client equals the
\* access token stored in the entry in every state, and every request of an
\* operation is sent with that token as it is at the moment of sending.
C23_TokenReplacedAtomically ==
    [][/\ entry_state' \in {"SETUP_IN_PROGRESS", "LOADED"}
          => access_token' = entry_data'.access_token
       /\ \A t \in Tasks :
            (pc'[t] \in {"first", "retry"} /\ pc[t] # pc'[t])
            => /\ sent'[t] = access_token'
               /\ sent'[t] = entry_data'.access_token
      ]_vars

\* A refresh of the live coordinator replaced the token while a request of
\* the details coordinator was in flight; client and entry agree on it.
C23_Witness ==
    /\ entry_state = "LOADED"
    /\ pc["details"] = "first"
    /\ pc["live"] = "retry"
    /\ Len(log["live"]) = 2
    /\ log["live"][2].out = "Success"
    /\ access_token = log["live"][2].token
    /\ entry_data.access_token = access_token
    /\ sent["details"] # access_token

\* The access tokens that were replaced: every token the server issued or
\* the entry was set up with, other than the one the client holds now.
OldTokens == {k \in 1..(next_token - 1) : k # access_token}

\* C24: once a refresh has succeeded and replaced the access token, no
\* request of an operation that starts afterwards carries a replaced token:
\* whichever task starts a request (first attempt or retry), the token sent
\* is none of the old ones, and the retry of an invocation never carries the
\* token its first attempt was rejected with.
C24_OldTokenNeverSentAgain ==
    [][\A t \in Tasks :
         /\ (pc'[t] \in {"first", "retry"} /\ pc[t] # pc'[t])
            => sent'[t] \notin OldTokens'
         /\ (pc'[t] = "retry" /\ pc[t] = "refresh")
            => sent'[t] # log'[t][1].tok
      ]_vars

\* After the live coordinator's refresh replaced token 1, a command started
\* and its request carries the new token.
C24_Witness ==
    /\ entry_state = "LOADED"
    /\ pc["cmd"] = "first"
    /\ Len(log["live"]) >= 2
    /\ log["live"][1].tok = 1
    /\ log["live"][2].out = "Success"
    /\ log["live"][2].token = 2
    /\ access_token = 2
    /\ sent["cmd"] = 2
    /\ 1 \in OldTokens

\* C25: polling is idempotent.  The step in which a fetch ends successfully,
\* directly or as the retry after a refresh, makes the fetched payload the
\* snapshot as it is, whatever the snapshot was before; a payload identical
\* to the published snapshot leaves every snapshot as it was.
C25_PollIdempotent ==
    [][\A t \in FetchTasks :
         LET c == CoordinatorOf(t)
             p == Last(log'[t]).payload
         IN  ( /\ pc[t] \in {"first", "retry"}
               /\ pc'[t] = "idle"
               /\ Last(log'[t]).out = "Success" )
             => /\ p \in PayloadsOf(OperationOf(t))
                /\ data'[c] = p
                /\ data[c] = p => data' = data
      ]_vars

\* Two successful fetches of the live coordinator received the same payload,
\* one after a refresh and a retry, one at once; it is the snapshot.
C25_Witness ==
    /\ result["live"] = "ok"
    /\ Len(log["live"]) = 3
    /\ result["forced"] = "ok"
    /\ Len(log["forced"]) = 1
    /\ log["live"][3].payload = log["forced"][1].payload
    /\ data["live"] = log["forced"][1].payload

\* The outcomes of the calls of an invocation, in order.
Outcomes(calls) == [i \in 1..Len(calls) |-> calls[i].out]

Moves(t) == pc'[t] # pc[t] \/ log'[t] # log[t] \/ result'[t] # result[t]

\* C27: the coordinators interact only through the credentials.  No step of
\* a poll cycle of the live coordinator (scheduled or requested by a command)
\* changes the bike-details snapshot, no step of a bike-details cycle changes
\* the live snapshot, whether the cycle succeeds or fails, and no step of a
\* command changes the bike-details snapshot.
C27_SnapshotsIndependent ==
    [][/\ (Moves("live") \/ Moves("forced") \/ Moves("cmd"))
          => data'["details"] = data["details"]
       /\ Moves("details") => data'["live"] = data["live"]
      ]_vars

\* A bike-details cycle published a new payload and a later live cycle
\* failed: each snapshot is the payload its own coordinator fetched last.
C27_Witness ==
    /\ entry_state = "LOADED"
    /\ result["details"] = "ok"
    /\ Len(log["details"]) = 3
    /\ data["details"] = log["details"][3].payload
    /\ result["live"] = "UpdateFailed"
    /\ data["live"] # None
    /\ data["live"] \in LivePayloads

\* C28: the entry becomes LOADED only in the step in which the first fetch
\* of the bike-details coordinator succeeds, after the first fetch of the
\* live coordinator succeeded, so that a LOADED entry has both snapshots and
\* both operations were called at least once with success; a LOADED entry
\* that is unloaded is NOT_LOADED, and nothing else takes it out of LOADED.
C28_LoadedAfterBothFetches ==
    [][/\ (entry_state # "LOADED" /\ entry_state' = "LOADED")
          => /\ setup_pc = "details"
             /\ pc["details"] # "idle"
             /\ result["live"] = "ok"
             /\ result'["details"] = "ok"
       /\ entry_state' = "LOADED"
          => /\ data'["live"] \in LivePayloads
             /\ data'["details"] \in DetailsPayloads
             /\ \E i \in 1..Len(log'["live"]) :
                  /\ log'["live"][i].op = "get_device_data"
                  /\ log'["live"][i].out = "Success"
             /\ \E i \in 1..Len(log'["details"]) :
                  /\ log'["details"][i].op = "get_bike_details"
                  /\ log'["details"][i].out = "Success"
       /\ (entry_state = "LOADED" /\ entry_state' # "LOADED")
          => entry_state' = "NOT_LOADED"
      ]_vars

\* The entry was loaded by two successful first fetches and then unloaded.
C28_Witness ==
    /\ entry_state = "NOT_LOADED"
    /\ result["live"] = "ok"
    /\ result["details"] = "ok"
    /\ data["live"] # None
    /\ data["details"] # None
    /\ cycles = 2

\* C29: in the user flow a failed login never creates an entry and always
\* shows the form again with the one error code of its failure class:
\* invalid_auth for an authentication failure, cannot_connect for a
\* connection failure, unknown for any other exception.
C29_UserFlowLoginFailure ==
    [][( /\ flow.source = "user"
         /\ flow.step = "login"
         /\ flow'.step # "login"
         /\ Last(flow_log').out # "Success" )
       => /\ flow'.source = "user"
          /\ flow'.step = "form"
          /\ flow'.outcome = "none"
          /\ flow'.errors =
               CASE Last(flow_log').out = "Auth" -> "invalid_auth"
                 [] Last(flow_log').out = "Conn" -> "cannot_connect"
                 [] OTHER                        -> "unknown"
          /\ Last(flow_log').status \in {"401", "403"}
             => flow'.errors = "invalid_auth"
          /\ Last(flow_log').status \in {"500", "ClientError"}
             => flow'.errors = "cannot_connect"
          /\ other_entries' = other_entries
          /\ entry_data' = entry_data]_vars

\* The user form shown again with `unknown` after a login whose answer
\* raised another exception; no entry was created.
C29_Witness ==
    /\ flow.source = "user"
    /\ flow.step = "form"
    /\ flow.errors = "unknown"
    /\ Len(flow_log) = 1
    /\ flow_log[1].out = "KeyError"
    /\ other_entries = {}

\* C30: at most one entry exists per account email.  In every state the
\* entries have pairwise different emails, and a user flow whose login
\* succeeds for an email that has an entry aborts with already_configured
\* and leaves the entries as they are.
C30_OneEntryPerEmail ==
    [][/\ \A e1 \in other_entries', e2 \in other_entries' \cup {entry_data'} :
            e1.email = e2.email => e1 = e2
       /\ ( /\ flow.source = "user"
            /\ flow.step = "login"
            /\ Last(flow_log').out = "Success"
            /\ \/ flow.user_input.email = entry_data.email
               \/ \E e \in other_entries : e.email = flow.user_input.email )
          => /\ flow'.step = "done"
             /\ flow'.outcome = "already_configured"
             /\ other_entries' = other_entries
             /\ entry_data' = entry_data
      ]_vars

\* A first user flow created the entry of the other account, a second one
\* for the same account was aborted.
C30_Witness ==
    /\ flow.source = "user"
    /\ flow.outcome = "already_configured"
    /\ flow.user_input.email = "different@example.com"
    /\ Cardinality(other_entries) = 1
    /\ \E e \in other_entries : e.email = "different@example.com"

\* C31: a reauthentication flow whose login succeeds for the entry's own
\* email gives the entry the access token and the refresh token of that
\* login (the refresh token the server issued in this step is next_token),
\* keeps its email and ends with the abort reason reauth_successful; a
\* failed login shows the reauth_confirm form again and leaves the entry as
\* it was.
C31_ReauthReplacesTokens ==
    [][( /\ flow.source = "reauth"
         /\ flow.step = "login"
         /\ flow'.step # "login" )
       => /\ ( /\ Last(flow_log').out = "Success"
               /\ flow.user_input.email = entry_data.email )
             => /\ flow'.step = "done"
                /\ flow'.outcome = "reauth_successful"
                /\ entry_data' = [email |-> entry_data.email,
                                  access_token |-> Last(flow_log').token,
                                  refresh_token |-> next_token]
                /\ entry_data'.refresh_token # entry_data.refresh_token
          /\ Last(flow_log').out # "Success"
             => /\ flow'.source = "reauth"
                /\ flow'.step = "form"
                /\ flow'.errors # "none"
                /\ flow'.outcome = "none"
                /\ entry_data' = entry_data
                /\ reauth_flows' = reauth_flows]_vars

\* The reauthentication ended with reauth_successful and the entry holds the
\* two tokens of the login.
C31_Witness ==
    /\ flow.source = "reauth"
    /\ flow.outcome = "reauth_successful"
    /\ flow.user_input.email = "test@example.com"
    /\ entry_data.email = "test@example.com"
    /\ entry_data.access_token = flow_log[1].token
    /\ entry_data.access_token # NoToken
    /\ entry_data.refresh_token # TestRefreshToken

\* C32: a reauthentication flow whose login succeeds for an email other than
\* the entry's aborts with the reason wrong_account and leaves the entry's
\* access token and refresh token (and the other entries) unchanged.
C32_ReauthWrongAccount ==
    [][( /\ flow.source = "reauth"
         /\ flow.step = "login"
         /\ Last(flow_log').out = "Success"
         /\ flow.user_input.email # entry_data.email )
       => /\ flow'.step = "done"
          /\ flow'.outcome = "wrong_account"
          /\ entry_data' = entry_data
          /\ entry_state' = entry_state
          /\ other_entries' = other_entries]_vars

\* A reauthentication with the other account's credentials was aborted; the
\* entry still holds the tokens it was created with.
C32_Witness ==
    /\ flow.source = "reauth"
    /\ flow.outcome = "wrong_account"
    /\ flow.user_input.email = "different@example.com"
    /\ flow_log[1].out = "Success"
    /\ entry_data.refresh_token = TestRefreshToken
    /\ entry_data.email = "test@example.com"

\* The keys of a config entry's data.
EntryKeys == {"email", "access_token", "refresh_token"}

\* Entry data with these three keys only, holding an email and two tokens.
IsCredentials(e) ==
    /\ DOMAIN e = EntryKeys
    /\ e.email \in Emails
    /\ e.access_token \in 0..(MaxTokens + 1)
    /\ e.refresh_token \in 1..(MaxTokens + 1)

\* C33: the data of a config entry is exactly the email, the access token
\* and the refresh token.  This holds for the entry a user flow creates from
\* a form with a password, for the entry after a reauthentication, and for
\* what a later token refresh writes back (the entry's data with the access
\* token replaced): the password of the form is under no key of any entry.
C33_PasswordNeverStored ==
    /\ IsCredentials(entry_data)
    /\ \A e \in other_entries : IsCredentials(e)
    /\ \A new \in 0..(MaxTokens + 1) : IsCredentials(async_update_entry(new))
    /\ flow.user_input # None => "password" \in DOMAIN flow.user_input

\* A user flow created an entry from a form that carried a password, and a
\* reauthentication with a password replaced the tokens of the first entry.
C33_Witness ==
    /\ other_entries # {}
    /\ flow.source = "reauth"
    /\ flow.outcome = "reauth_successful"
    /\ flow.user_input.password = "password"
    /\ entry_data.refresh_token # TestRefreshToken

\* C34: a control request starts the command that carries the requested
\* boolean: armed switch on -> set_monitored(True), off ->
\* set_monitored(False), select "audible" -> set_movement_alarm(True),
\* "silent" -> set_movement_alarm(False); with a token the call is sent at
\* once, and an invocation whose first attempt succeeded has made exactly
\* that one transport call.
C34_Requested(name, value) ==
    /\ command' = [name |-> name, value |-> value]
    /\ ~RequiresToken(access_token) =>
          /\ pc'["cmd"] = "first"
          /\ sent'["cmd"] = access_token
          /\ log'["cmd"] = << >>

C34_OneCallWhenFirstSucceeds ==
    (Len(log["cmd"]) >= 1 /\ log["cmd"][1].out = "Success") =>
        /\ Len(log["cmd"]) = 1
        /\ pc["cmd"] = "idle"
        /\ result["cmd"] = "ok"
        /\ log["cmd"][1].op = command.name
        /\ log["cmd"][1].op \in Commands

C34_ControlIssuesRequestedCommand ==
    [][ /\ MuliSwitch_async_turn_on => C34_Requested("set_monitored", TRUE)
        /\ MuliSwitch_async_turn_off => C34_Requested("set_monitored", FALSE)
        /\ async_select_option("audible") =>
              C34_Requested("set_movement_alarm", TRUE)
        /\ async_select_option("silent") =>
              C34_Requested("set_movement_alarm", FALSE)
        /\ C34_OneCallWhenFirstSucceeds' ]_vars

\* The second control request of the run, a "silent" selection, was answered
\* with success at its first attempt.
C34_Witness ==
    /\ command = [name |-> "set_movement_alarm", value |-> FALSE]
    /\ pc["cmd"] = "idle"
    /\ result["cmd"] = "ok"
    /\ Len(log["cmd"]) = 1
    /\ log["cmd"][1].op = "set_movement_alarm"
    /\ log["cmd"][1].out = "Success"
    /\ cycles = 4

\* C35: setting up the switch platform for the entry registers exactly one
\* switch entity for it.
C35_OneSwitchEntity ==
    entry_state = "LOADED" => Cardinality(RegisteredSwitches) = 1

\* C36: a successful refresh is never rolled back.  The step in which the
\* retried operation fails (connection failure or a second authentication
\* failure) reports the failure and leaves the new access token in the
\* client and in the entry; afterwards the token that the first attempt was
\* rejected with is never the client's token again, and every operation
\* that starts is sent with the client's current token.
C36_RetryFailed(t) ==
    /\ pc[t] = "idle"
    /\ Len(log[t]) = 3
    /\ log[t][2].out = "Success"
    /\ log[t][3].out # "Success"

C36_RefreshNotRolledBack ==
    [][ \A t \in Tasks :
          /\ (pc[t] = "retry" /\ C36_RetryFailed(t)') =>
                /\ result'[t] \in {"UpdateFailed", "ConfigEntryAuthFailed"}
                /\ access_token' = access_token
                /\ entry_data' = entry_data
          /\ (pc[t] = "refresh" /\ C36_RetryFailed(t)') =>
                /\ result'[t] = "ConfigEntryAuthFailed"
                /\ access_token' = log'[t][2].token
          /\ C36_RetryFailed(t)' =>
                /\ entry_data'.access_token = access_token'
                /\ log'[t][1].tok # NoToken =>
                      access_token' # log'[t][1].tok
          /\ (pc[t] = "idle" /\ pc'[t] = "first") =>
                sent'[t] = access_token' ]_vars

\* The retry of one task failed after its refresh succeeded, and the
\* operation of another task is in flight with the refreshed token.
C36_Witness ==
    \E t \in Tasks, u \in Tasks :
      /\ t # u
      /\ C36_RetryFailed(t)
      /\ log[t][3].tok # NoToken
      /\ pc[u] = "first"
      /\ sent[u] = log[t][2].token
      /\ access_token = log[t][2].token

\* C37: the forced live re-fetch is requested in the step that ends a
\* command if and only if the command's final transport call succeeded; a
\* command that ends in UpdateFailed or ConfigEntryAuthFailed requests
\* nothing, and no other step of a command requests a re-fetch.
C37_RefetchIffCommandSucceeded ==
    [][ /\ (pc["cmd"] # "idle" /\ pc'["cmd"] = "idle") =>
              IF Last(log'["cmd"]).out = "Success"
              THEN /\ result'["cmd"] = "ok"
                   /\ requests' = [requests EXCEPT !.live = @ + 1]
                   /\ pending_refresh'
              ELSE /\ result'["cmd"] \in {"UpdateFailed",
                                           "ConfigEntryAuthFailed"}
                   /\ requests' = requests
                   /\ pending_refresh' = pending_refresh
        /\ (pc["cmd"] # "idle" /\ pc'["cmd"] # "idle") =>
              (requests' = requests /\ pending_refresh' = pending_refresh)
        /\ (pc'["cmd"] = "idle" /\ result'["cmd"] \in
               {"UpdateFailed", "ConfigEntryAuthFailed"}) =>
              requests'["live"] = 0 ]_vars

\* A command whose retry was rejected ended in ConfigEntryAuthFailed
\* without a request for the re-fetch.
C37_Witness ==
    /\ pc["cmd"] = "idle"
    /\ result["cmd"] = "ConfigEntryAuthFailed"
    /\ Len(log["cmd"]) = 3
    /\ log["cmd"][3].out = "Auth"
    /\ requests["live"] = 0
    /\ ~pending_refresh

\* C38: during setup the first fetch of the bike-details coordinator starts
\* only after the first refresh of the live coordinator has succeeded, and
\* every call it makes happens after that success.  If the live first
\* refresh fails, the setup ends there: no bike-details call has been made
\* or is in flight, the entry is not loaded and no platform is set up.
C38_DetailsAfterLive ==
    [][ /\ (pc["details"] = "idle" /\ pc'["details"] # "idle") =>
              /\ setup_pc = "live_done"
              /\ pc["live"] = "idle"
              /\ result["live"] = "ok"
              /\ Last(log["live"]).out = "Success"
        /\ log'["details"] # log["details"] =>
              (pc'["live"] = "idle" /\ result'["live"] = "ok")
        /\ ( /\ setup_pc = "live"
             /\ pc["live"] # "idle"
             /\ pc'["live"] = "idle"
             /\ result'["live"] # "ok" ) =>
              /\ setup_pc' = "none"
              /\ entry_state' \in {"SETUP_RETRY", "SETUP_ERROR"}
              /\ RegisteredSwitches' = {}
              /\ pc'["details"] = "idle"
              /\ log'["details"] = log["details"]
              /\ data'["details"] = None
              /\ fetched'["details"] = None ]_vars

\* The live first refresh was rejected, the refresh got no answer, and the
\* setup ended without a call of the bike-details coordinator.
C38_Witness ==
    /\ entry_state = "SETUP_RETRY"
    /\ setup_pc = "none"
    /\ result["live"] = "UpdateFailed"
    /\ Len(log["live"]) = 2
    /\ log["details"] = << >>
    /\ pc["details"] = "idle"
    /\ data["details"] = None

\* C39: under every interleaving of the coordinators and the commands the
\* client's access token is the token the entry was set up with or the token
\* of a successful refresh answer: it changes only when a setup builds the
\* client from the entry or when a refresh returns successfully, and then
\* to the token of that answer, whatever other refreshes were answered
\* before or are still in flight; so of two overlapping refreshes the one
\* processed last determines the stored token.
C39_RefreshAnswered(t) ==
    /\ pc[t] = "refresh"
    /\ Len(log'[t]) > Len(log[t])
    /\ log'[t][Len(log[t]) + 1].out = "Success"

C39_LastRefreshWins ==
    [][ /\ \A t \in Tasks :
             C39_RefreshAnswered(t) =>
               /\ access_token' = log'[t][Len(log[t]) + 1].token
               /\ entry_data'.access_token = access_token'
        /\ access_token' # access_token =>
             \/ \E t \in Tasks : C39_RefreshAnswered(t)
             \/ /\ setup_pc' = "live"
                /\ entry_state' = "SETUP_IN_PROGRESS"
                /\ access_token' = entry_data.access_token
        /\ access_token' < next_token'
        /\ \A t \in Tasks :
             ( /\ Len(log'[t]) >= 2
               /\ log'[t][2].out = "Success"
               /\ access_token' # NoToken ) =>
               access_token' >= log'[t][2].token ]_vars

\* Two tasks found the token of the setup rejected and each refreshed; the
\* client and the entry hold the token of the refresh answered last, while
\* the retry of the other task is still in flight with the earlier one.
C39_Witness ==
    \E t \in Tasks, u \in Tasks :
      /\ t # u
      /\ pc[t] = "retry"
      /\ pc[u] = "retry"
      /\ log[t][1].tok = 1
      /\ log[u][1].tok = 1
      /\ log[t][2].token # NoToken
      /\ log[u][2].token > log[t][2].token
      /\ sent[t] = log[t][2].token
      /\ access_token = log[u][2].token
      /\ entry_data.access_token = log[u][2].token

\* C40: every poll cycle and every command ends after at most three
\* transport calls: the operation, one refresh, one retry of the operation.
\* An invocation in progress is always waiting for exactly one answer and
\* has a step for it; every answer moves the invocation forward in the order
\* first attempt, refresh, retry, end, never back, so it has ended after at
\* most three answers whatever they are; and it never makes more than two
\* calls of the operation and one refresh.
C40_Rank(p) ==
    CASE p = "first"   -> 1
      [] p = "refresh" -> 2
      [] p = "retry"   -> 3
      [] OTHER         -> 4

C40_EndsWithinThreeCalls ==
    [][ \A t \in Tasks :
          /\ pc[t] # "idle" => ENABLED Returns(t)
          /\ (pc[t] # "idle" /\ pc'[t] # pc[t]) =>
                /\ C40_Rank(pc'[t]) > C40_Rank(pc[t])
                /\ Len(log'[t]) > Len(log[t])
          /\ (pc[t] # "idle" /\ log'[t] # log[t]) => pc'[t] # pc[t]
          /\ Len(log'[t]) <= 3
          /\ Len(log'[t]) + (IF pc'[t] = "idle" THEN 0 ELSE 1) <= 3
          /\ RefreshCalls(t)' <= 1
          /\ OperationCalls(t)' <= 2
          /\ (pc'[t] = "idle" /\ log'[t] # << >>) => Finished(t)' ]_vars

\* A command ended after three calls, the third one rejected, while a poll
\* cycle ended after its single call got no answer.
C40_Witness ==
    /\ pc["cmd"] = "idle"
    /\ Len(log["cmd"]) = 3
    /\ log["cmd"][1].status = "401"
    /\ log["cmd"][3].out = "Auth"
    /\ result["cmd"] = "ConfigEntryAuthFailed"
    /\ pc["live"] = "idle"
    /\ Len(log["live"]) = 1
    /\ result["live"] = "UpdateFailed"

====
